---- MODULE Spec2Model ----
(***************************************************************************)
(* A model of agent.py of TG-GAT (NavCMTAgent): the view-window geometry   *)
(* (move_view_corners), the oracle (teacher_action, compute_iou) and the   *)
(* rollout step loop with its two feedback regimes.                        *)
(*                                                                         *)
(* Numbers.  The program computes in floating point over GPS degrees.  The *)
(* model computes exactly over a grid: one grid unit is MetresPerUnit      *)
(* metres (the program's 11.13e4 metres per degree fixes the scale), a     *)
(* point is <<lat, lng>> in units, an altitude is in metres.  Windows are   *)
(* axis-parallel rectangles with even edge lengths and every executed      *)
(* rotation is a multiple of 90 degrees, so that each float operation of   *)
(* the program (norm, unit vector, rotation matrix, arctangent) has an     *)
(* exact integer value here; rounding error of the floats is not           *)
(* modelled.  A not-a-number corner (0/0 on a zero-length edge) is NaN.    *)
(***************************************************************************)
EXTENDS Integers, Sequences, FiniteSets, TLC

(***************************************************************************)
(* Bounds of the model.                                                    *)
(***************************************************************************)
MapSize == 6           \* the map is the box (0,0)..(MapSize,MapSize), in units
MaxDistance == 1       \* largest distance of a direct move_view_corners call
MaxActionLen == 3      \* args.max_action_len, the step budget K
BatchSize == 2         \* samples per batch

(***************************************************************************)
(* Program constants.                                                      *)
(***************************************************************************)
MetresPerUnit == 20    \* 11.13 * 1e4 metres per degree, as metres per grid unit
MinAltitude == 40      \* round(a * 360) + 40
AltitudeSpan == 360    \* 400 - 40
DriftTolerance == 2    \* abs(input_current_direction - current_direction) > 2

(***************************************************************************)
(* Integer helpers.                                                        *)
(***************************************************************************)
Abs(x) == IF x < 0 THEN -x ELSE x

Sign(x) == IF x > 0 THEN 1 ELSE IF x < 0 THEN -1 ELSE 0

Max2(a, b) == IF a >= b THEN a ELSE b

Min2(a, b) == IF a <= b THEN a ELSE b

\* Division rounding toward zero (exact on every value the model reaches).
Quot(a, b) == Sign(a) * Sign(b) * (Abs(a) \div Abs(b))

RECURSIVE SqrtSearch(_, _, _)
SqrtSearch(n, lo, hi) ==
    IF lo >= hi THEN lo
    ELSE LET mid == (lo + hi + 1) \div 2
         IN  IF mid * mid <= n THEN SqrtSearch(n, mid, hi)
                              ELSE SqrtSearch(n, lo, mid - 1)

\* floor(sqrt(n)), n < 2^30
ISqrt(n) == SqrtSearch(n, 0, Min2(n, 32767))

RECURSIVE Gcd(_, _)
Gcd(a, b) == IF b = 0 THEN a ELSE Gcd(b, a % b)

(***************************************************************************)
(* Points and windows.                                                     *)
(***************************************************************************)
NaN == << >>

IsNaN(p) == Len(p) = 0

Add(p, q) == IF IsNaN(p) \/ IsNaN(q) THEN NaN ELSE <<p[1] + q[1], p[2] + q[2]>>

Sub(p, q) == IF IsNaN(p) \/ IsNaN(q) THEN NaN ELSE <<p[1] - q[1], p[2] - q[2]>>

\* np.linalg.norm of a vector
Norm(v) ==
    IF v[1] = 0 THEN Abs(v[2])
    ELSE IF v[2] = 0 THEN Abs(v[1])
    ELSE ISqrt(v[1] * v[1] + v[2] * v[2])

\* v / np.linalg.norm(v) * change; 0/0 is not-a-number
UnitTimes(v, change) ==
    IF Norm(v) = 0 THEN NaN
    ELSE <<Quot(v[1] * change, Norm(v)), Quot(v[2] * change, Norm(v))>>

\* np.mean(corners, axis=0)
Mean(cs) ==
    IF \E k \in 1..4 : IsNaN(cs[k]) THEN NaN
    ELSE <<Quot(cs[1][1] + cs[2][1] + cs[3][1] + cs[4][1], 4),
           Quot(cs[1][2] + cs[2][2] + cs[3][2] + cs[4][2], 4)>>

\* (p + q) / 2
Mid(p, q) == <<Quot(p[1] + q[1], 2), Quot(p[2] + q[2], 2)>>

\* cos and sin of theta degrees, theta a multiple of 90
CosDeg(theta) ==
    CASE theta % 360 = 0 -> 1
      [] theta % 360 = 90 -> 0
      [] theta % 360 = 180 -> -1
      [] theta % 360 = 270 -> 0

SinDeg(theta) ==
    CASE theta % 360 = 0 -> 0
      [] theta % 360 = 90 -> 1
      [] theta % 360 = 180 -> 0
      [] theta % 360 = 270 -> -1

\* M = [[cos, sin], [-sin, cos]]; M p
rotation_anticlock(theta, p) ==
    << CosDeg(theta) * p[1] + SinDeg(theta) * p[2],
       -SinDeg(theta) * p[1] + CosDeg(theta) * p[2] >>

\* np.arctan(num / den) / 1.57 * 90, rounded, for den # 0: the model's vectors
\* are axis-parallel (0 degrees) or diagonal (45 degrees).
ArctanDeg(num, den) ==
    CASE num = 0 -> 0
      [] Abs(num) = Abs(den) -> 45 * Sign(num) * Sign(den)

get_direction(start, end) ==
    LET vec == Sub(end, start)
        _angle == IF vec[2] > 0 THEN ArctanDeg(vec[1], vec[2])
                  ELSE IF vec[2] < 0 THEN ArctanDeg(vec[1], vec[2]) + 180
                  ELSE IF Sign(vec[1]) = 1 THEN 90
                  ELSE 270
    IN  (360 - _angle + 90) % 360

\* InBounds with the comparisons made non-strict
InBoundsNonStrict(p, gps_botm_left, gps_top_right) ==
    /\ ~IsNaN(p)
    /\ p[1] >= gps_botm_left[1] /\ p[1] <= gps_top_right[1]
    /\ p[2] >= gps_botm_left[2] /\ p[2] <= gps_top_right[2]

\* strictly inside the box (gps_botm_left, gps_top_right); false for NaN
InBounds(p, gps_botm_left, gps_top_right) ==
    /\ ~IsNaN(p)
    /\ p[1] > gps_botm_left[1] /\ p[1] < gps_top_right[1]
    /\ p[2] > gps_botm_left[2] /\ p[2] < gps_top_right[2]

AllInBounds(cs, gps_botm_left, gps_top_right) ==
    \A k \in 1..4 : InBounds(cs[k], gps_botm_left, gps_top_right)

(***************************************************************************)
(* move_view_corners: zoom, rotate, move, each stage checked against the   *)
(* bounds.  The program's corners[0..3] are cs[1..4] here.                 *)
(***************************************************************************)
move_view_corner_forward(cs, change) ==
    << Add(cs[1], UnitTimes(Sub(cs[1], cs[4]), change)),
       Add(cs[2], UnitTimes(Sub(cs[2], cs[3]), change)),
       Add(cs[3], UnitTimes(Sub(cs[2], cs[3]), change)),
       Add(cs[4], UnitTimes(Sub(cs[1], cs[4]), change)) >>

change_corner(cs, change) ==
    << Add(Add(cs[1], UnitTimes(Sub(cs[1], cs[2]), change)),
           UnitTimes(Sub(cs[1], cs[4]), change)),
       Add(Add(cs[2], UnitTimes(Sub(cs[2], cs[1]), change)),
           UnitTimes(Sub(cs[2], cs[3]), change)),
       Add(Add(cs[3], UnitTimes(Sub(cs[3], cs[4]), change)),
           UnitTimes(Sub(cs[3], cs[2]), change)),
       Add(Add(cs[4], UnitTimes(Sub(cs[4], cs[3]), change)),
           UnitTimes(Sub(cs[4], cs[1]), change)) >>

\* round(get_direction(mean, (corners[0] + corners[1]) / 2)) % 360
CurrentDirection(corners) ==
    get_direction(Mean(corners), Mid(corners[1], corners[2])) % 360

\* An asserted direction is <<d>>; None is << >>.
None == << >>

\* the angle after "angle += input_current_direction"
DriftedAngle(corners, angle, input_current_direction) ==
    IF /\ input_current_direction # None
       /\ Abs(input_current_direction[1] - CurrentDirection(corners)) > DriftTolerance
    THEN angle + input_current_direction[1]
    ELSE angle

\* np.linalg.norm(corners[1] - corners[0]) * 11.13 * 1e4, in metres
EdgeLengthMetres(corners) == Norm(Sub(corners[2], corners[1])) * MetresPerUnit

\* ZoomStage with the step computed from the altitude alone
ZoomStageAbsolute(corners, altitude) ==
    change_corner(corners, Quot(altitude, 2 * MetresPerUnit))

\* -------- Zoom --------
ZoomStage(corners, altitude) ==
    change_corner(corners,
                  Quot(altitude - EdgeLengthMetres(corners), 2 * MetresPerUnit))

\* -------- Rotate --------
RotateStage(corners, angle) ==
    LET mean_im_coords == Mean(corners)
    IN  [k \in 1..4 |->
            Add(mean_im_coords,
                rotation_anticlock(-angle, Sub(corners[k], mean_im_coords)))]

\* -------- Move --------
MoveStage(rotated_corners, distance) ==
    move_view_corner_forward(rotated_corners, distance)

\* move_view_corners returning, when the move stage is rejected, the corners
\* the move stage accepted before the first rejected one (a partially applied
\* corner set) instead of the rotated window
move_view_corners_partial(corners, angle, distance, altitude, gps_botm_left, gps_top_right, input_current_direction) ==
    LET current_direction == CurrentDirection(corners)
        angle2 == DriftedAngle(corners, angle, input_current_direction)
        zoomed == ZoomStage(corners, altitude)
    IN  IF ~AllInBounds(zoomed, gps_botm_left, gps_top_right)
        THEN [corners |-> corners, direction |-> current_direction]
        ELSE
        LET rotated == RotateStage(zoomed, angle2)
        IN  IF ~AllInBounds(rotated, gps_botm_left, gps_top_right)
            THEN [corners |-> zoomed, direction |-> current_direction]
            ELSE
            LET moved == MoveStage(rotated, distance)
            IN  [corners |-> [k \in 1..4 |->
                                IF InBounds(moved[k], gps_botm_left, gps_top_right)
                                THEN moved[k] ELSE rotated[k]],
                 direction |-> (current_direction + angle2) % 360]

move_view_corners(corners, angle, distance, altitude, gps_botm_left, gps_top_right, input_current_direction) ==
    LET current_direction == CurrentDirection(corners)
        angle2 == DriftedAngle(corners, angle, input_current_direction)
        zoomed == ZoomStage(corners, altitude)
    IN  IF ~AllInBounds(zoomed, gps_botm_left, gps_top_right)
        THEN [corners |-> corners, direction |-> current_direction]
        ELSE
        LET rotated == RotateStage(zoomed, angle2)
        IN  IF ~AllInBounds(rotated, gps_botm_left, gps_top_right)
            THEN [corners |-> zoomed, direction |-> current_direction]
            ELSE
            LET moved == MoveStage(rotated, distance)
            IN  IF ~AllInBounds(moved, gps_botm_left, gps_top_right)
                THEN [corners |-> rotated,
                      direction |-> (current_direction + angle2) % 360]
                ELSE [corners |-> moved,
                      direction |-> (current_direction + angle2) % 360]

(***************************************************************************)
(* compute_iou: intersection area over the area of the convex hull of the  *)
(* eight vertices.  The polygons are the model's axis-parallel rectangles  *)
(* (possibly collapsed to a segment or a point), so that each polygon is   *)
(* its own convex hull and is the box spanned by its corners.  Areas are   *)
(* kept doubled.                                                           *)
(***************************************************************************)
RECURSIVE SumOver(_, _)
\* the sum of f[x] over the finite set S
SumOver(S, f) ==
    IF S = {} THEN 0
    ELSE LET x == CHOOSE y \in S : TRUE
         IN  f[x] + SumOver(S \ {x}, f)

MinOf(S) == CHOOSE x \in S : \A y \in S : x <= y

MaxOf(S) == CHOOSE x \in S : \A y \in S : x >= y

\* the box of a window: [lo1, hi1] x [lo2, hi2]
BoxOf(cs) ==
    [lo1 |-> MinOf({cs[k][1] : k \in 1..4}), hi1 |-> MaxOf({cs[k][1] : k \in 1..4}),
     lo2 |-> MinOf({cs[k][2] : k \in 1..4}), hi2 |-> MaxOf({cs[k][2] : k \in 1..4})]

\* poly1.intersects(poly2): the closed boxes share a point
Intersects(a, b) ==
    /\ Max2(a.lo1, b.lo1) <= Min2(a.hi1, b.hi1)
    /\ Max2(a.lo2, b.lo2) <= Min2(a.hi2, b.hi2)

\* 2 * poly1.intersection(poly2).area
InterArea2(a, b) ==
    2 * Max2(0, Min2(a.hi1, b.hi1) - Max2(a.lo1, b.lo1))
      * Max2(0, Min2(a.hi2, b.hi2) - Max2(a.lo2, b.lo2))

Cross(o, p, q) == (p[1] - o[1]) * (q[2] - o[2]) - (p[2] - o[2]) * (q[1] - o[1])

\* p -> q is an edge of the convex hull of S, walked with the hull on its left
HullEdge(S, p, q) ==
    /\ p # q
    /\ \A r \in S :
        /\ Cross(p, q, r) >= 0
        /\ Cross(p, q, r) = 0 =>
              (r[1] - p[1]) * (r[1] - q[1]) + (r[2] - p[2]) * (r[2] - q[2]) <= 0

\* the shoelace sum over a set of directed edges
Shoelace(edges) ==
    SumOver(edges, [e \in edges |-> e[1][1] * e[2][2] - e[2][1] * e[1][2]])

\* 2 * MultiPoint(S).convex_hull.area
HullArea2(S) == Shoelace({e \in S \X S : HullEdge(S, e[1], e[2])})

\* A fraction is <<num, den>>, den > 0, in lowest terms.
Reduce(num, den, g) == <<Sign(den) * (num \div g), Abs(den) \div g>>

Frac(num, den) == Reduce(num, den, Gcd(Abs(num), Abs(den)))

\* "if union_area == 0: iou = 0" and then, in every case,
\* "iou = float(inter_area) / union_area": [raises |-> TRUE] is the
\* ZeroDivisionError for union_area == 0
IouOf(inter_area, union_area) ==
    IF union_area = 0
    THEN [raises |-> TRUE, iou |-> <<0, 1>>]
    ELSE [raises |-> FALSE, iou |-> Frac(inter_area, union_area)]

\* compute_iou dividing by poly1.area + poly2.area - inter_area
compute_iou_union(a, b) ==
    IF ~Intersects(BoxOf(a), BoxOf(b))
    THEN [raises |-> FALSE, iou |-> <<0, 1>>]
    ELSE IouOf(InterArea2(BoxOf(a), BoxOf(b)),
               InterArea2(BoxOf(a), BoxOf(a)) + InterArea2(BoxOf(b), BoxOf(b))
                   - InterArea2(BoxOf(a), BoxOf(b)))

compute_iou(a, b) ==
    IF ~Intersects(BoxOf(a), BoxOf(b))
    THEN [raises |-> FALSE, iou |-> <<0, 1>>]
    ELSE IouOf(InterArea2(BoxOf(a), BoxOf(b)),
               HullArea2({a[k] : k \in 1..4} \cup {b[k] : k \in 1..4}))

\* x > 0.5 for a fraction x
OverHalf(x) == 2 * x[1] > x[2]

(***************************************************************************)
(* Exact points.  A point with fractional coordinates is <<n1, n2, d>>,    *)
(* standing for (n1/d, n2/d), d > 0, in lowest terms.                      *)
(***************************************************************************)
Scaled(n1, n2, d, g) == <<n1 \div g, n2 \div g, d \div g>>

RPoint(n1, n2, d) == Scaled(n1, n2, d, Gcd(Gcd(Abs(n1), Abs(n2)), d))

FracLe(a, b) == a[1] * b[2] <= b[1] * a[2]

FracMax(a, b) == IF FracLe(a, b) THEN b ELSE a

FracMin(a, b) == IF FracLe(a, b) THEN a ELSE b

(***************************************************************************)
(* shapely_poly.intersection(shapely_line) for the window's box and a      *)
(* polyline through integer points.  A segment p + s d, 0 <= s <= 1, meets *)
(* the closed box on one interval of s.                                    *)
(***************************************************************************)
\* smallest and largest s at which coordinate pk + s dk lies in [lo, hi]
EnterAt(pk, dk, lo, hi) ==
    IF dk > 0 THEN <<lo - pk, dk>> ELSE IF dk < 0 THEN <<pk - hi, -dk>> ELSE <<0, 1>>

LeaveAt(pk, dk, lo, hi) ==
    IF dk > 0 THEN <<hi - pk, dk>> ELSE IF dk < 0 THEN <<pk - lo, -dk>> ELSE <<1, 1>>

PointAt(p, d, s) == RPoint(p[1] * s[2] + s[1] * d[1], p[2] * s[2] + s[1] * d[2], s[2])

\* the part of the segment between parameters sLo and sHi: << >> when there
\* is none, else <<first point, last point>>
ClipInterval(p, d, feasible, sLo, sHi) ==
    IF feasible /\ FracLe(sLo, sHi)
    THEN <<PointAt(p, d, sLo), PointAt(p, d, sHi)>>
    ELSE << >>

\* the part of the segment from p along d inside the box
ClipAlong(p, d, box) ==
    ClipInterval(p, d,
        /\ (d[1] # 0 \/ (box.lo1 <= p[1] /\ p[1] <= box.hi1))
        /\ (d[2] # 0 \/ (box.lo2 <= p[2] /\ p[2] <= box.hi2)),
        FracMax(<<0, 1>>, FracMax(EnterAt(p[1], d[1], box.lo1, box.hi1),
                                  EnterAt(p[2], d[2], box.lo2, box.hi2))),
        FracMin(<<1, 1>>, FracMin(LeaveAt(p[1], d[1], box.lo1, box.hi1),
                                  LeaveAt(p[2], d[2], box.lo2, box.hi2))))

\* the part of segment p-q inside the box
ClipSegment(p, q, box) == ClipAlong(p, Sub(q, p), box)

\* the coordinates of one clipped segment: one for a single point
PieceCoords(piece) == IF piece[1] = piece[2] THEN <<piece[1]>> ELSE piece

\* the connected parts found so far, with the next segment's piece added:
\* a piece that starts where the last part ends continues that part
AddPiece(parts, piece) ==
    IF piece = << >> THEN parts
    ELSE IF Len(parts) > 0 /\ parts[Len(parts)][Len(parts[Len(parts)])] = piece[1]
    THEN [parts EXCEPT ![Len(parts)] = @ \o Tail(PieceCoords(piece))]
    ELSE Append(parts, PieceCoords(piece))

RECURSIVE ClipParts(_, _, _, _)
\* the connected parts of the intersection, each a sequence of coordinates,
\* from segment k of the line on; parts holds the parts found so far
ClipParts(line, box, k, parts) ==
    IF k >= Len(line) THEN parts
    ELSE ClipParts(line, box, k + 1,
                   AddPiece(parts, ClipSegment(line[k], line[k + 1], box)))

RECURSIVE Flatten(_)
Flatten(parts) == IF parts = << >> THEN << >> ELSE Head(parts) \o Flatten(Tail(parts))

\* a line all of whose points coincide
ZeroLength(line) == \A k \in 1..Len(line) : line[k] = line[1]

\* What the geometry library returns for a line of zero length is not fixed
\* by the program: "point" (the point, when the window holds it) or
\* "empty" (an empty geometry without coordinates).
ZeroLineOutcomes == {"point", "empty"}

\* the geometry as the program reads it: kind "LineString" (one connected
\* part of two or more coordinates), "Point" (a single coordinate), "Multi"
\* (several parts) or "Empty"
Geometry(parts) ==
    [kind |-> IF Len(parts) = 0 THEN "Empty"
              ELSE IF Len(parts) > 1 THEN "Multi"
              ELSE IF Len(parts[1]) = 1 THEN "Point"
              ELSE "LineString",
     coords |-> Flatten(parts)]

\* shapely_poly.intersection(shapely_line)
Intersection(corners, line, zeroLine) ==
    Geometry(IF ZeroLength(line) /\ zeroLine = "empty" THEN << >>
             ELSE ClipParts(line, BoxOf(corners), 1, << >>))

(***************************************************************************)
(* teacher_action, one sample at a time.                                   *)
(***************************************************************************)
UnitsPerDegree == 5565      \* 11.13 * 1e4 metres per degree over MetresPerUnit
DistScale == 200            \* distances of the index search are in 1/200 unit
Epsilon == 11               \* 0.00001 degree, in 1/200 unit
InitialMinDis == 1000       \* min_dis = 1000, in degrees
MinDistance == 1            \* min_distance = 1, in degrees

\* the square root of n, in 1/DistScale
ScaledRoot(n) ==
    IF n < 26000 THEN ISqrt(n * DistScale * DistScale) ELSE DistScale * ISqrt(n)

\* np.linalg.norm(gt_pos - current_pos), in 1/DistScale unit
ScaledDist(p, q) ==
    ScaledRoot((p[1] - q[1]) * (p[1] - q[1]) + (p[2] - q[2]) * (p[2] - q[2]))

RECURSIVE ClosestStep(_, _, _, _, _)
\* the loop "for j in range(len(gt_path_corners) - 1, -1, -1)" from index j
\* down, with min_dis and the index chosen as they stand; index 0 is
\* "closest_step_index was never assigned"
ClosestStep(gt_path_corners, current_pos, j, min_dis, chosen) ==
    IF j = 0 THEN chosen
    ELSE IF ScaledDist(Mean(gt_path_corners[j]), current_pos) + Epsilon < min_dis
    THEN ClosestStep(gt_path_corners, current_pos, j - 1,
                     ScaledDist(Mean(gt_path_corners[j]), current_pos), j)
    ELSE ClosestStep(gt_path_corners, current_pos, j - 1, min_dis, chosen)

\* closest_step_index without the search: the last window of the path
closest_step_index_last(gt_path_corners, current_pos) == Len(gt_path_corners)

closest_step_index(gt_path_corners, current_pos) ==
    ClosestStep(gt_path_corners, current_pos, Len(gt_path_corners),
                InitialMinDis * UnitsPerDegree * DistScale, 0)

\* teacher_a[i][1] * 360: the edge of the reference window in metres, - 40
TeacherAltitude(reference_corners) == EdgeLengthMetres(reference_corners) - MinAltitude

\* floor((a1^2 + a2^2) / d^2) for a1 = q1 d + r1, a2 = q2 d + r2
FloorOfSquares(q1, r1, q2, r2, d) ==
    q1 * q1 + q2 * q2 + (2 * q1 * r1 + 2 * q2 * r2 + (r1 * r1 + r2 * r2) \div d) \div d

\* floor of the squared distance between exact point x and integer point g
DistSqFloor(x, g) ==
    FloorOfSquares(Abs(x[1] - g[1] * x[3]) \div x[3], Abs(x[1] - g[1] * x[3]) % x[3],
                   Abs(x[2] - g[2] * x[3]) \div x[3], Abs(x[2] - g[2] * x[3]) % x[3],
                   x[3])

\* np.linalg.norm(x - goal) < min_distance for min_distance = 1 degree
WithinMinDistance(x, g) ==
    DistSqFloor(x, g) < MinDistance * UnitsPerDegree * MinDistance * UnitsPerDegree

\* the squared distance between x and g, times x[3]^2
SqOffset(x, g) ==
    (x[1] - g[1] * x[3]) * (x[1] - g[1] * x[3]) + (x[2] - g[2] * x[3]) * (x[2] - g[2] * x[3])

\* np.linalg.norm(x - goal) < np.linalg.norm(y - goal), both under a degree
Closer(x, y, g) == SqOffset(x, g) * y[3] * y[3] < SqOffset(y, g) * x[3] * x[3]

RECURSIVE SelectTarget(_, _, _, _)
\* the loop "for x in intersection_line" from coordinate k on; best is
\* teacher_a[i][0] as it stands, << >> while it is still '0'
SelectTarget(intersection_line, goal_corner_center, k, best) ==
    IF k > Len(intersection_line) THEN best
    ELSE IF /\ WithinMinDistance(intersection_line[k], goal_corner_center)
            /\ best = << >> \/ Closer(intersection_line[k], best, goal_corner_center)
    THEN SelectTarget(intersection_line, goal_corner_center, k + 1, intersection_line[k])
    ELSE SelectTarget(intersection_line, goal_corner_center, k + 1, best)

\* np.mean(gt_path_corners[-1], axis=0)
GoalCentre(gt_path_corners) == Mean(gt_path_corners[Len(gt_path_corners)])

\* list(intersection.coords) of the line from the current position to the
\* goal: raises when the zero-length line yields an empty geometry (no
\* coords, or no target to subtract from)
ReadDirect(direct, zero) ==
    IF direct.kind = "Empty" /\ zero
    THEN [raises |-> TRUE, coords |-> << >>]
    ELSE [raises |-> FALSE, coords |-> direct.coords]

DirectLine(corners, gt_path_corners, zeroLine) ==
    ReadDirect(Intersection(corners, <<Mean(corners), GoalCentre(gt_path_corners)>>, zeroLine),
               ZeroLength(<<Mean(corners), GoalCentre(gt_path_corners)>>))

\* the coordinates read from the intersection with the whole reference
\* line: iterating a Point raises; an empty result falls back to the line
\* from the current position to the goal
ReadWhole(whole, corners, gt_path_corners, zeroLine) ==
    IF whole.kind = "Point" THEN [raises |-> TRUE, coords |-> << >>]
    ELSE IF whole.coords = << >> THEN DirectLine(corners, gt_path_corners, zeroLine)
    ELSE [raises |-> FALSE, coords |-> whole.coords]

\* IntersectionLine with the line from the current position to the goal in
\* both regimes
IntersectionLineDirect(feedback, corners, gt_path_corners, zeroLine) ==
    DirectLine(corners, gt_path_corners, zeroLine)

\* intersection_line: the coordinates the target is selected from;
\* [raises |-> TRUE] when the program raises while reading them
IntersectionLine(feedback, corners, gt_path_corners, zeroLine) ==
    IF feedback = "student" THEN DirectLine(corners, gt_path_corners, zeroLine)
    ELSE ReadWhole(Intersection(corners,
                                [j \in 1..Len(gt_path_corners) |-> Mean(gt_path_corners[j])],
                                zeroLine),
                   corners, gt_path_corners, zeroLine)

\* ClampRatio with each component clamped by itself
ClampRatioEach(r) ==
    RPoint(r[1] * Max2(Abs(r[2]), r[3]), r[2] * Max2(Abs(r[1]), r[3]),
           Max2(Abs(r[1]), r[3]) * Max2(Abs(r[2]), r[3]))

\* A ratio pair is <<r0, r1, d>>, standing for (r0/d, r1/d), d > 0.
\* ratio / max(|ratio[0]|, |ratio[1]|, 1)
ClampRatio(r) == RPoint(r[1], r[2], Max2(Max2(Abs(r[1]), Abs(r[2])), r[3]))

ZeroRatio == <<0, 0, 1>>

\* Cramer's rule for [_net_x _net_y] r = b / d, clamped; [raises |-> TRUE]
\* for a singular matrix
Cramer(_net_x, _net_y, b, d, det) ==
    IF det = 0 THEN [raises |-> TRUE, ratio |-> ZeroRatio]
    ELSE [raises |-> FALSE,
          ratio |-> ClampRatio(<<Sign(det) * (b[1] * _net_y[2] - _net_y[1] * b[2]),
                                 Sign(det) * (_net_x[1] * b[2] - b[1] * _net_x[2]),
                                 Abs(det) * d>>)]

SolveBasis(_net_x, _net_y, b, d) ==
    Cramer(_net_x, _net_y, b, d, _net_x[1] * _net_y[2] - _net_y[1] * _net_x[2])

\* np.linalg.solve(A, b) for A = [_net_x _net_y], b = target - current_pos
SolveAt(corners, current_pos, target) ==
    SolveBasis(Sub(Mid(corners[2], corners[3]), current_pos),
               Sub(Mid(corners[1], corners[2]), current_pos),
               <<target[1] - current_pos[1] * target[3], target[2] - current_pos[2] * target[3]>>,
               target[3])

SolveRatio(corners, target) == SolveAt(corners, Mean(corners), target)

\* what teacher_action yields for a sample at which it raises
Failed == [raises |-> TRUE, ratio |-> ZeroRatio, altitude |-> 0, progress |-> <<0, 1>>]

\* lines 447-464, once the solve is done
TeacherSolved(altitude, progress, solved) ==
    IF solved.raises THEN Failed
    ELSE [raises |-> FALSE, ratio |-> solved.ratio, altitude |-> altitude, progress |-> progress]

\* lines 420-464, once the target is selected: '0' - current_pos raises
TeacherTarget(corners, altitude, progress, target) ==
    IF target = << >> THEN Failed
    ELSE TeacherSolved(altitude, progress, SolveRatio(corners, target))

\* lines 389-464, once the intersection is read
TeacherLine(corners, gt_path_corners, altitude, progress, line) ==
    IF line.raises THEN Failed
    ELSE TeacherTarget(corners, altitude, progress,
                       SelectTarget(line.coords, GoalCentre(gt_path_corners), 1, << >>))

\* lines 376-464, once the progress and the nearest index are known
TeacherProgress(feedback, is_ended, corners, gt_path_corners, zeroLine, iou, index) ==
    IF iou.raises \/ index = 0 THEN Failed
    ELSE IF is_ended \/ OverHalf(iou.iou)
    THEN [raises |-> FALSE, ratio |-> ZeroRatio,
          altitude |-> TeacherAltitude(gt_path_corners[index]), progress |-> iou.iou]
    ELSE TeacherLine(corners, gt_path_corners, TeacherAltitude(gt_path_corners[index]), iou.iou,
                     IntersectionLine(feedback, corners, gt_path_corners, zeroLine))

\* teacher_action for sample i: the oracle action (ratio, altitude * 360) and
\* the progress; raises says that the program raises an exception here.
TeacherSample(feedback, is_ended, corners, gt_path_corners, zeroLine) ==
    TeacherProgress(feedback, is_ended, corners, gt_path_corners, zeroLine,
                    compute_iou(corners, gt_path_corners[Len(gt_path_corners)]),
                    closest_step_index(gt_path_corners, Mean(corners)))

(***************************************************************************)
(* Windows of the data set: rectangles given by centre, half width (half   *)
(* of edge 0-1), half depth (half of edge 1-2) and compass heading.  The   *)
(* corners run front-left, front-right, back-right, back-left.             *)
(***************************************************************************)
Headings == {0, 90, 180, 270}

Rect(centre, hs, hf, heading) ==
    [k \in 1..4 |->
        Add(centre,
            rotation_anticlock(-heading,
                CASE k = 1 -> <<hf, -hs>>
                  [] k = 2 -> <<hf, hs>>
                  [] k = 3 -> <<-hf, hs>>
                  [] k = 4 -> <<-hf, -hs>>))]

Square(centre, half, heading) == Rect(centre, half, half, heading)

gps_botm_left == <<0, 0>>

gps_top_right == <<MapSize, MapSize>>

(***************************************************************************)
(* State.                                                                  *)
(***************************************************************************)
VARIABLES
    view,       \* the window a chain of move_view_corners calls has reached
    viewDir,    \* the direction the last call returned
    call,       \* the arguments of the last call, << >> before the first
    gt_path_corners,        \* per sample, the reference path of the batch
    env_test,               \* 'test' in self.env_name
    entry,                  \* "train" or "test": the caller of rollout
    plan,                   \* the feedback regimes of the rollouts still to start
    feedback,               \* self.feedback of the running rollout
    pc,                     \* "idle", "loop", "returned" or "raised"
    t,                      \* iterations of the step loop completed
    ended,                  \* per sample
    current_view_corners,   \* per sample
    current_directions,     \* per sample
    traj,                   \* per sample, the lists of the trajectory record
    ml_loss,                \* "finite" or "nan"
    loss,                   \* self.loss: "zero", "finite" or "nan"
    last                    \* the locals of the last iteration, << >> before it

moveVars == <<view, viewDir, call>>

rolloutVars == <<gt_path_corners, env_test, entry, plan, feedback, pc, t, ended, current_view_corners, current_directions, traj, ml_loss, loss, last>>

vars == <<moveVars, rolloutVars>>

Samples == 1..BatchSize

\* no batch is loaded: the state of the rollout variables under SpecMove
NoRollout ==
    /\ gt_path_corners = << >> /\ env_test = FALSE /\ entry = "none"
    /\ plan = << >> /\ feedback = "none" /\ pc = "off" /\ t = 0
    /\ ended = << >> /\ current_view_corners = << >> /\ current_directions = << >>
    /\ traj = << >> /\ ml_loss = "finite" /\ loss = "zero" /\ last = << >>

(***************************************************************************)
(* A chain of move_view_corners calls: each call's input window is the     *)
(* window the previous call returned.                                      *)
(***************************************************************************)
\* first windows: squares, a rectangle and degenerate windows (a single
\* point, and segments with corners 0, 1 or corners 1, 2 coinciding)
StartWindows ==
    {Square(<<3, 3>>, h, d) : h \in {0, 1, 2}, d \in Headings}
    \cup {Rect(<<3, 3>>, 2, 1, d) : d \in Headings}
    \cup {Rect(<<3, 3>>, 0, 1, d) : d \in Headings}
    \cup {Rect(<<3, 3>>, 1, 0, d) : d \in Headings}

Angles == {0, 90, 270}

Altitudes == {MinAltitude, 2 * MinAltitude}

AssertedDirections == {None} \cup {<<d>> : d \in Headings}

MoveInit ==
    /\ view \in StartWindows
    /\ viewDir = CurrentDirection(view)
    /\ call = << >>
    /\ NoRollout

Call(angle, distance, altitude, input_current_direction) ==
    LET r == move_view_corners(view, angle, distance, altitude, gps_botm_left, gps_top_right, input_current_direction)
    IN  /\ view' = r.corners
        /\ viewDir' = r.direction
        /\ call' = [corners |-> view, angle |-> angle, distance |-> distance,
                    altitude |-> altitude, asserted |-> input_current_direction]
        /\ UNCHANGED rolloutVars

\* rollout's call: the sample's recorded direction is asserted
AdvanceAsserted ==
    \E angle \in Angles, distance \in 0..MaxDistance, altitude \in Altitudes, d \in {0, 90} :
        Call(angle, distance, altitude, <<d>>)

\* the visualisation's call: no direction is asserted
AdvanceUnasserted ==
    \E angle \in Angles, distance \in 0..MaxDistance, altitude \in Altitudes :
        Call(angle, distance, altitude, None)

MoveNext == AdvanceAsserted \/ AdvanceUnasserted

SpecMove == MoveInit /\ [][MoveNext]_vars

(***************************************************************************)
(* The batch.  Reference paths are straight and run east from (3, 2); the  *)
(* first window's heading is the sample's starting_angle.                  *)
(***************************************************************************)
\* the first window faces north, the goal lies one unit east
NearPath == <<Square(<<3, 2>>, 1, 0), Square(<<3, 3>>, 1, 90)>>

\* the goal is a wider window around the next centre
ZoomPath == <<Square(<<3, 2>>, 1, 90), Square(<<3, 3>>, 2, 90)>>

\* the goal lies two degrees east of the first window
FarPath == <<Square(<<3, 2>>, 1, 90), Square(<<3, 2 * UnitsPerDegree>>, 1, 90)>>

\* the goal is a window of 440 m around the next centre
WidePath == <<Square(<<3, 2>>, 1, 90), Square(<<3, 3>>, 11, 90)>>

Paths == {NearPath, ZoomPath, FarPath, WidePath}

\* ob['starting_angle']
starting_angle(i) == CurrentDirection(gt_path_corners[i][1])

(***************************************************************************)
(* The policy network is not modelled: each step it yields, per sample,    *)
(* one of PolicyOutputs (next_pos_ratio as a ratio pair, altitude in       *)
(* 1/360, progress as a fraction), not yet clamped.                        *)
(***************************************************************************)
PolicyOutputs ==
    { [next_pos_ratio |-> <<0, 2, 1>>, altitude |-> -40, progress |-> <<3, 10>>],
      [next_pos_ratio |-> <<1, 0, 1>>, altitude |-> 40, progress |-> <<6, 5>>] }

\* which term of the step's loss is not-a-number
NanTerms == {"none", "regression", "bbox", "nss"}

\* min(1., max(0., x)) for x in 1/360
ClipAltitude(x) == Min2(AltitudeSpan, Max2(0, x))

\* min(1., max(0., x)) for a fraction x
ClipProgress(x) == IF x[1] < 0 THEN <<0, 1>> ELSE IF x[1] > x[2] THEN <<1, 1>> ELSE x

\* round(((math.atan2(a[0], a[1]) / 3.14159 + 2) / 2 % 1) * 360), for a ratio
\* pair along an axis of the window
DecodeAngle(a) ==
    CASE a[1] = 0 /\ a[2] >= 0 -> 0
      [] a[1] > 0 /\ a[2] = 0 -> 90
      [] a[1] = 0 /\ a[2] < 0 -> 180
      [] a[1] < 0 /\ a[2] = 0 -> 270

\* np.linalg.norm(a) * (np.linalg.norm(corners[0] - corners[1]) / 2)
DecodeDistance(a, corners) ==
    Quot(Norm(<<a[1], a[2]>>) * Norm(Sub(corners[1], corners[2])), 2 * a[3])

(***************************************************************************)
(* train(feedback) and test(feedback, env_name): the batch is loaded and   *)
(* the rollouts of the call are planned.  train runs a teacher rollout,    *)
(* or a teacher rollout and then a student rollout, on the same batch;     *)
(* test runs one rollout.  env_test is "'test' in self.env_name".          *)
(***************************************************************************)
Init ==
    /\ view = << >> /\ viewDir = 0 /\ call = << >>
    /\ gt_path_corners \in [Samples -> Paths]
    /\ entry \in {"train", "test"}
    /\ env_test \in BOOLEAN
    /\ entry = "train" => ~env_test
    /\ \E f \in {"teacher", "student"} :
          plan = IF entry = "train" /\ f = "student" THEN <<"teacher", "student">> ELSE <<f>>
    /\ feedback = "none"
    /\ pc = "idle"
    /\ t = 0
    /\ ended = << >> /\ current_view_corners = << >> /\ current_directions = << >>
    /\ traj = << >>
    /\ ml_loss = "finite"
    /\ loss = "zero"
    /\ last = << >>

\* RolloutInit that keeps the finishing status of the rollout before
RolloutInitStale ==
    /\ pc \in {"idle", "returned"}
    /\ plan # << >>
    /\ feedback' = Head(plan)
    /\ plan' = Tail(plan)
    /\ current_view_corners' = [i \in Samples |-> gt_path_corners[i][1]]
    /\ current_directions' = [i \in Samples |-> starting_angle(i)]
    /\ traj' = [i \in Samples |->
                  [path_corners |-> << <<gt_path_corners[i][1], starting_angle(i)>> >>,
                   actions |-> << >>, gt_actions |-> << >>,
                   gt_progress |-> << >>, progress |-> << >>]]
    /\ ended' = IF ended = << >> THEN [i \in Samples |-> FALSE] ELSE ended
    /\ ml_loss' = "finite"
    /\ t' = 0
    /\ last' = << >>
    /\ pc' = "loop"
    /\ UNCHANGED <<moveVars, gt_path_corners, env_test, entry, loss>>

\* rollout up to the step loop
RolloutInit ==
    /\ pc \in {"idle", "returned"}
    /\ plan # << >>
    /\ feedback' = Head(plan)
    /\ plan' = Tail(plan)
    /\ current_view_corners' = [i \in Samples |-> gt_path_corners[i][1]]
    /\ current_directions' = [i \in Samples |-> starting_angle(i)]
    /\ traj' = [i \in Samples |->
                  [path_corners |-> << <<gt_path_corners[i][1], starting_angle(i)>> >>,
                   actions |-> << >>, gt_actions |-> << >>,
                   gt_progress |-> << >>, progress |-> << >>]]
    /\ ended' = [i \in Samples |-> FALSE]
    /\ ml_loss' = "finite"
    /\ t' = 0
    /\ last' = << >>
    /\ pc' = "loop"
    /\ UNCHANGED <<moveVars, gt_path_corners, env_test, entry, loss>>

\* target where teacher_action is not called
NoTarget == [raises |-> FALSE, ratio |-> ZeroRatio, altitude |-> 0, progress |-> <<0, 1>>]

\* target, gt_progress = self.teacher_action(obs, ended, corners, directions),
\* called only when 'test' is not in self.env_name
teacher_action(zeroLine) ==
    IF env_test THEN [i \in Samples |-> NoTarget]
    ELSE [i \in Samples |->
            TeacherSample(feedback, ended[i], current_view_corners[i], gt_path_corners[i], zeroLine)]

\* the samples at which the iteration raises: teacher_action's failures,
\* or, without an oracle, the teacher regime's read of the unbound target
Raising(target) ==
    IF env_test
    THEN IF feedback = "teacher" THEN Samples ELSE {}
    ELSE {i \in Samples : target[i].raises}

\* the zero-length line arises for some sample
ZeroLineArises ==
    \E i \in Samples :
        ZeroLength(<<Mean(current_view_corners[i]),
                     Mean(gt_path_corners[i][Len(gt_path_corners[i])])>>)

\* type(x) == type(-100).  teacher_a[i][0] is an np.ndarray, a ratio pair
\* (a triple) in the model; an int would be a sequence of one number, which
\* teacher_action never returns.
IsInt(x) == Len(x) = 1

\* the samples whose four regression terms are added to ml_loss: those that
\* pass "if type(target[i][0]) != type(-100)"
Supervised(target) == {i \in Samples : ~IsInt(target[i].ratio)}

\* ml_loss after the step's terms: a not-a-number regression or bbox term is
\* added (and reported), a not-a-number NSS term is not added
AddLossTerms(loss_so_far, nan_term) ==
    IF nan_term \in {"regression", "bbox"} THEN "nan" ELSE loss_so_far

\* LogStep without the test of the finishing status
LogStepAlways(tr, is_ended, a_t_next_pos_ratio, a_t_altitude, target, pred_progress) ==
    [tr EXCEPT
        !.actions = Append(@, <<a_t_next_pos_ratio, a_t_altitude>>),
        !.gt_actions = IF env_test THEN @ ELSE Append(@, <<target.ratio, target.altitude>>),
        !.gt_progress = IF env_test THEN @ ELSE Append(@, target.progress),
        !.progress = Append(@, pred_progress)]

\* LogStep without the record of the action
LogStepNoAction(tr, is_ended, a_t_next_pos_ratio, a_t_altitude, target, pred_progress) ==
    IF is_ended THEN tr
    ELSE [tr EXCEPT
            !.gt_actions = IF env_test THEN @ ELSE Append(@, <<target.ratio, target.altitude>>),
            !.gt_progress = IF env_test THEN @ ELSE Append(@, target.progress),
            !.progress = Append(@, pred_progress)]

\* the "Log the trajectory" block for one sample
LogStep(tr, is_ended, a_t_next_pos_ratio, a_t_altitude, target, pred_progress) ==
    IF is_ended THEN tr
    ELSE [tr EXCEPT
            !.actions = Append(@, <<a_t_next_pos_ratio, a_t_altitude>>),
            !.gt_actions = IF env_test THEN @ ELSE Append(@, <<target.ratio, target.altitude>>),
            !.gt_progress = IF env_test THEN @ ELSE Append(@, target.progress),
            !.progress = Append(@, pred_progress)]

\* EffectiveAction with the regimes exchanged
EffectiveActionSwapped(regime, target, a_t_next_pos_ratio, a_t_altitude) ==
    IF regime = "student" THEN <<target.ratio, target.altitude>>
    ELSE <<a_t_next_pos_ratio, a_t_altitude>>

\* a_t[i]: the action the regime executes
EffectiveAction(regime, target, a_t_next_pos_ratio, a_t_altitude) ==
    IF regime = "teacher" THEN <<target.ratio, target.altitude>>
    ELSE <<a_t_next_pos_ratio, a_t_altitude>>

\* pred_progress_t[i]: the progress the regime compares with 0.5
EffectiveProgress(regime, target, pred_progress_t) ==
    IF regime = "teacher" THEN target.progress ELSE pred_progress_t

\* Interact without the end at the last step of the budget
InteractNoBudget(i, a_t, pred_progress_t) ==
    IF OverHalf(pred_progress_t)
    THEN [ended |-> TRUE, moved |-> FALSE,
          corners |-> current_view_corners[i], direction |-> current_directions[i]]
    ELSE [ended |-> ended[i], moved |-> TRUE,
          corners |-> move_view_corners(current_view_corners[i], DecodeAngle(a_t[1]), DecodeDistance(a_t[1], current_view_corners[i]), a_t[2] + MinAltitude, gps_botm_left, gps_top_right, <<current_directions[i]>>).corners,
          direction |-> move_view_corners(current_view_corners[i], DecodeAngle(a_t[1]), DecodeDistance(a_t[1], current_view_corners[i]), a_t[2] + MinAltitude, gps_botm_left, gps_top_right, <<current_directions[i]>>).direction]

\* the sample after move_view_corners returned r
Advanced(i, r) ==
    [ended |-> ended[i], moved |-> TRUE, corners |-> r.corners, direction |-> r.direction]

\* the "Interact with the simulator" block for one sample: the sample ends
\* (progress over 0.5, or the last step of the budget) or its window is
\* advanced by move_view_corners
Interact(i, a_t, pred_progress_t) ==
    IF OverHalf(pred_progress_t) \/ t = MaxActionLen - 1
    THEN [ended |-> TRUE, moved |-> FALSE,
          corners |-> current_view_corners[i], direction |-> current_directions[i]]
    ELSE Advanced(i, move_view_corners(current_view_corners[i], DecodeAngle(a_t[1]), DecodeDistance(a_t[1], current_view_corners[i]), a_t[2] + MinAltitude, gps_botm_left, gps_top_right, <<current_directions[i]>>))

\* self.loss after "self.loss += ml_loss * train_ml / batch_size"
Accumulate(loss_so_far, ml) ==
    IF loss_so_far = "nan" \/ ml = "nan" THEN "nan" ELSE "finite"

\* One iteration of the step loop that raises no exception: clamp the
\* policy's outputs, ask the oracle, add the loss terms, log, select by
\* regime, interact, append the path entry, and leave the loop when every
\* sample has ended or the budget is used up.
RolloutStep ==
    /\ pc = "loop"
    /\ \E zeroLine \in ZeroLineOutcomes :
        /\ zeroLine = "point" \/ (~env_test /\ ZeroLineArises)
        /\ \E target \in {teacher_action(zeroLine)} :
            /\ Raising(target) = {}
            /\ \E pred \in [Samples -> PolicyOutputs], nan_term \in NanTerms :
                /\ env_test => nan_term = "none"
                /\ \E a_t_next_pos_ratio \in {[i \in Samples |-> ClampRatio(pred[i].next_pos_ratio)]},
                      a_t_altitude \in {[i \in Samples |-> ClipAltitude(pred[i].altitude)]},
                      pred_progress_t \in {[i \in Samples |-> ClipProgress(pred[i].progress)]} :
                   \E a_t \in {[i \in Samples |->
                                  EffectiveAction(feedback, target[i], a_t_next_pos_ratio[i], a_t_altitude[i])]},
                      progress_t \in {[i \in Samples |->
                                  EffectiveProgress(feedback, target[i], pred_progress_t[i])]},
                      logged \in {[i \in Samples |->
                                  LogStep(traj[i], ended[i], a_t_next_pos_ratio[i], a_t_altitude[i], target[i], pred[i].progress)]},
                      ml \in {IF env_test THEN ml_loss ELSE AddLossTerms(ml_loss, nan_term)} :
                   \E after \in {[i \in Samples |-> Interact(i, a_t[i], progress_t[i])]} :
                   \E leaves \in {(\A i \in Samples : after[i].ended) \/ t = MaxActionLen - 1} :
                       /\ ended' = [i \in Samples |-> after[i].ended]
                       /\ current_view_corners' = [i \in Samples |-> after[i].corners]
                       /\ current_directions' = [i \in Samples |-> after[i].direction]
                       /\ traj' = [i \in Samples |->
                                     IF after[i].ended THEN logged[i]
                                     ELSE [logged[i] EXCEPT !.path_corners =
                                             Append(@, <<after[i].corners, after[i].direction>>)]]
                       /\ ml_loss' = ml
                       /\ t' = t + 1
                       /\ pc' = IF leaves THEN "returned" ELSE "loop"
                       /\ loss' = IF leaves /\ entry = "train" THEN Accumulate(loss, ml) ELSE loss
                       /\ last' = [was_ended |-> ended, was_at |-> current_view_corners,
                                   was_dir |-> current_directions,
                                   pred |-> pred, target |-> target, a_t |-> a_t,
                                   progress_t |-> progress_t,
                                   moved |-> {i \in Samples : after[i].moved},
                                   supervised |-> IF env_test THEN {} ELSE Supervised(target),
                                   nan_term |-> nan_term, raised |-> {}]
    /\ UNCHANGED <<moveVars, gt_path_corners, env_test, entry, plan, feedback>>

\* An iteration in which an exception is raised: nothing in the program
\* catches it, so the rollout and its caller are abandoned.
RolloutRaises ==
    /\ pc = "loop"
    /\ \E zeroLine \in ZeroLineOutcomes :
        /\ zeroLine = "point" \/ (~env_test /\ ZeroLineArises)
        /\ \E target \in {teacher_action(zeroLine)} :
            /\ Raising(target) # {}
            /\ last' = [was_ended |-> ended, was_at |-> current_view_corners,
                        was_dir |-> current_directions,
                        target |-> target, raised |-> Raising(target)]
    /\ pc' = "raised"
    /\ UNCHANGED <<moveVars, gt_path_corners, env_test, entry, plan, feedback, t, ended, current_view_corners, current_directions, traj, ml_loss, loss>>

Next == RolloutInit \/ RolloutStep \/ RolloutRaises

Spec == Init /\ [][Next]_vars

(***************************************************************************)
(* The oracle's functions applied to single inputs: compute_iou, the       *)
(* nearest-index search, the target selection and the basis decomposition  *)
(* of teacher_action.  last holds the call and what it returned.           *)
(***************************************************************************)
MaxShift == 3          \* largest offset between the two windows of compute_iou

\* three windows due east of one another
StraightPath == <<Square(<<2, 2>>, 1, 90), Square(<<2, 3>>, 1, 90), Square(<<2, 4>>, 1, 90)>>

\* east, then north
BentPath == <<Square(<<2, 2>>, 1, 90), Square(<<2, 4>>, 1, 90), Square(<<4, 4>>, 1, 0)>>

\* the last two windows share their centre and differ in size
TiedPath == <<Square(<<2, 2>>, 1, 90), Square(<<2, 4>>, 2, 90), Square(<<2, 4>>, 1, 90)>>

\* the goal lies two degrees east
DistantPath == <<Square(<<2, 2>>, 1, 90), Square(<<2, 3>>, 1, 90), Square(<<2, 2 * UnitsPerDegree>>, 1, 90)>>

OraclePaths == {StraightPath, BentPath, TiedPath, DistantPath}

\* current windows: at the first waypoint, on the path and off it
OracleWindows ==
    {Square(c, 1, d) : c \in {<<2, 2>>, <<2, 3>>, <<3, 3>>, <<4, 2>>}, d \in Headings}

\* pairs of windows for compute_iou: squares and rectangles, and windows
\* collapsed to a segment or a point
IouWindows ==
    {Square(<<2, 2 + k>>, h, d) : k \in 0..MaxShift, h \in {1, 2}, d \in {0, 90}}
    \cup {Rect(<<3, 3>>, 2, 1, 0), Rect(<<3, 3>>, 0, 1, 0), Square(<<2, 2>>, 0, 0)}

\* targets of the basis decomposition: exact points in and around a window
\* centred at (2, 2), in halves
SolveTargets == {<<n1, n2, 2>> : n1 \in {1, 4, 5, 6, 8}, n2 \in {0, 3, 4, 6, 9}}

OracleInit ==
    /\ view = << >> /\ viewDir = 0 /\ call = << >>
    /\ gt_path_corners = << >> /\ env_test = FALSE /\ entry = "none"
    /\ plan = << >> /\ feedback = "none" /\ pc = "oracle" /\ t = 0
    /\ ended = << >> /\ current_view_corners = << >> /\ current_directions = << >>
    /\ traj = << >> /\ ml_loss = "finite" /\ loss = "zero" /\ last = << >>

\* a call leaves everything but its record alone; each behaviour is one call
OracleFrame ==
    /\ pc' = "called"
    /\ UNCHANGED <<moveVars, gt_path_corners, env_test, entry, plan, feedback, t, ended, current_view_corners, current_directions, traj, ml_loss, loss>>

\* progress = compute_iou(corners, gt_path_corners[-1])
CallComputeIou ==
    /\ pc = "oracle"
    /\ \E a \in IouWindows, b \in IouWindows :
          last' = [op |-> "compute_iou", a |-> a, b |-> b, result |-> compute_iou(a, b)]
    /\ OracleFrame

\* the search of the nearest reference window and the altitude read from it
CallClosestStep ==
    /\ pc = "oracle"
    /\ \E path \in OraclePaths, corners \in OracleWindows :
       \E index \in {closest_step_index(path, Mean(corners))} :
          last' = [op |-> "closest_step", gt_path_corners |-> path, corners |-> corners,
                   index |-> index,
                   altitude |-> IF index = 0 THEN 0 ELSE TeacherAltitude(path[index])]
    /\ OracleFrame

\* teacher_action for one sample that has not ended
CallTeacherSample ==
    /\ pc = "oracle"
    /\ \E regime \in {"teacher", "student"}, path \in OraclePaths, corners \in OracleWindows :
       \E line \in {IntersectionLine(regime, corners, path, "point")} :
          last' = [op |-> "teacher_sample", feedback |-> regime,
                   gt_path_corners |-> path, corners |-> corners,
                   line |-> line,
                   picked |-> IF line.raises THEN << >>
                              ELSE SelectTarget(line.coords, GoalCentre(path), 1, << >>),
                   result |-> TeacherSample(regime, FALSE, corners, path, "point")]
    /\ OracleFrame

\* lines 447-464: the target as a clamped combination of the window's axes
CallSolveRatio ==
    /\ pc = "oracle"
    /\ \E d \in Headings, target \in SolveTargets :
          last' = [op |-> "solve", corners |-> Square(<<2, 2>>, 1, d), target |-> target,
                   result |-> SolveRatio(Square(<<2, 2>>, 1, d), target)]
    /\ OracleFrame

OracleNext == CallComputeIou \/ CallClosestStep \/ CallTeacherSample \/ CallSolveRatio

SpecOracle == OracleInit /\ [][OracleNext]_vars

(***************************************************************************)
(* Properties of move_view_corners, checked under SpecMove.                *)
(***************************************************************************)
\* all four corners are numbers strictly inside the map box
StrictlyInside(cs) ==
    \A k \in 1..4 :
        /\ Len(cs[k]) = 2
        /\ 0 < cs[k][1] /\ cs[k][1] < MapSize
        /\ 0 < cs[k][2] /\ cs[k][2] < MapSize

\* C1: in a chain of move_view_corners calls that starts from a window with
\* all four corners strictly inside the box, every returned window has all
\* four corners strictly inside the box, whatever the angle, distance,
\* altitude and asserted direction of each call.
C1_BoundsInvariant == StrictlyInside(view)

\* a call has returned a window other than its input
C1_Witness == call # << >> /\ view # call.corners

\* the stages of the last call, recomputed from its arguments
LastZoomed == ZoomStage(call.corners, call.altitude)

LastApplied == DriftedAngle(call.corners, call.angle, call.asserted)

LastRotated == RotateStage(LastZoomed, LastApplied)

LastMoved == MoveStage(LastRotated, call.distance)

LastDirection == CurrentDirection(call.corners)

\* the outcome of the last call by stage, with the direction a successful
\* rotation is to give
StageOutcome(turned) ==
    IF ~StrictlyInside(LastZoomed)
    THEN view = call.corners /\ viewDir = LastDirection
    ELSE IF ~StrictlyInside(LastRotated)
    THEN view = LastZoomed /\ viewDir = LastDirection
    ELSE IF ~StrictlyInside(LastMoved)
    THEN view = LastRotated /\ viewDir = turned
    ELSE view = LastMoved /\ viewDir = turned

AllStagesAccepted ==
    /\ call # << >>
    /\ StrictlyInside(LastZoomed)
    /\ StrictlyInside(LastRotated)
    /\ StrictlyInside(LastMoved)

\* the asserted direction of the last call disagrees with the recomputed
\* one by more than 2 degrees
DriftAsserted ==
    /\ call.asserted # None
    /\ Abs(call.asserted[1] - LastDirection) > DriftTolerance

\* the rotation C16 says is applied
LastAsStated ==
    IF DriftAsserted THEN call.angle + (call.asserted[1] - LastDirection)
    ELSE call.angle

\* C16 as stated (drift correction): the window a call returns when all of
\* its stages are accepted is the zoomed window rotated by the requested
\* angle plus the discrepancy (asserted minus recomputed direction) when the
\* two differ by more than 2 degrees, and by the requested angle otherwise,
\* and then moved.
C16_AsStated ==
    AllStagesAccepted =>
        view = MoveStage(RotateStage(LastZoomed, LastAsStated), call.distance)

\* C17 as stated (direction on success): when all three stages of a call are
\* accepted the returned direction is (recomputed direction + requested
\* angle) mod 360, with or without drift correction, and lies in [0, 360).
C17_AsStated ==
    AllStagesAccepted =>
        /\ viewDir = (LastDirection + call.angle) % 360
        /\ 0 <= viewDir /\ viewDir < 360

\* a window with a zero-length edge
Degenerate(cs) == cs[1] = cs[2] \/ cs[2] = cs[3] \/ cs[3] = cs[4] \/ cs[4] = cs[1]

\* the last call asked for no change: angle 0, distance 0, the altitude of
\* the window's own edge, no asserted direction
IdentityCall ==
    /\ call # << >>
    /\ call.angle = 0 /\ call.distance = 0 /\ call.asserted = None
    /\ call.altitude = EdgeLengthMetres(call.corners)

\* C18 (identity transform): a call with angle 0, distance 0, the altitude
\* equal to the window's reference edge length and no asserted direction, on
\* a window without a zero-length edge that lies inside the bounds, returns
\* the four corners it was given.
C18_Identity ==
    IdentityCall /\ ~Degenerate(call.corners) /\ StrictlyInside(call.corners)
        => view = call.corners

\* such a call was made on a window that an earlier call had resized,
\* turned or moved, and each of its stages was accepted
C18_Witness ==
    /\ IdentityCall
    /\ ~Degenerate(call.corners)
    /\ call.corners \notin StartWindows
    /\ AllStagesAccepted
    /\ view = call.corners

\* C19 as stated (degenerate window): no call of move_view_corners on a
\* window with a zero-length edge returns a window.
C19_AsStated == ~(call # << >> /\ Degenerate(call.corners) /\ Len(view) = 4)

(***************************************************************************)
(* Properties of rollout, checked under Spec.                              *)
(***************************************************************************)
\* the last iteration ran to its end (no exception)
Stepped == last # << >> /\ last.raised = {}

\* a rollout has been started
InRollout == pc \in {"loop", "returned", "raised"}

AllEnded == \A i \in Samples : ended[i]

\* C3 (rollout termination): the step loop runs at most MaxActionLen
\* iterations; it is still running only while fewer than MaxActionLen
\* iterations are done and some sample has not ended (so it stops at the end
\* of the first iteration after which every sample has ended); and when
\* rollout has returned every sample's ended flag is true.
C3_Termination ==
    InRollout =>
        /\ t <= MaxActionLen
        /\ pc = "loop" => t < MaxActionLen /\ ~AllEnded
        /\ pc = "returned" => AllEnded /\ t >= 1

\* a rollout that returned before the budget was used up
C3_Witness == pc = "returned" /\ t < MaxActionLen /\ AllEnded

\* C4 (ended once, no append after the end): in every step of the loop a
\* sample that has ended stays ended and none of its histories changes, and
\* a sample that ends in the step gets no path entry in that step.
C4_EndedOnce ==
    [][pc = "loop" =>
         \A i \in Samples :
            /\ ended[i] => ended'[i] /\ traj'[i] = traj[i]
            /\ ended'[i] => traj'[i].path_corners = traj[i].path_corners]_vars

\* a full iteration ran over a sample that had ended before it, while
\* another sample's histories grew
C4_Witness ==
    /\ Stepped
    /\ \E i, j \in Samples :
          /\ last.was_ended[i]
          /\ ~last.was_ended[j]
          /\ Len(traj[j].actions) > Len(traj[i].actions)

\* C5 as stated (only samples not yet ended are advanced): after every
\* iteration, a sample that had ended before the iteration was not passed
\* to move_view_corners and has the window and direction it had.
C5_AsStated ==
    Stepped =>
        \A i \in Samples :
            last.was_ended[i] =>
                /\ i \notin last.moved
                /\ current_view_corners[i] = last.was_at[i]
                /\ current_directions[i] = last.was_dir[i]

\* the action and progress the regime is to use for sample i in the last
\* iteration: the oracle's under "teacher", the clamped model outputs under
\* "student"
RegimeAction(i) ==
    IF feedback = "teacher"
    THEN <<last.target[i].ratio, last.target[i].altitude>>
    ELSE <<ClampRatio(last.pred[i].next_pos_ratio), ClipAltitude(last.pred[i].altitude)>>

RegimeProgress(i) ==
    IF feedback = "teacher" THEN last.target[i].progress
    ELSE ClipProgress(last.pred[i].progress)

\* the window and direction move_view_corners yields from sample i's state
\* before the last iteration under the regime's action
RegimeMove(i) ==
    move_view_corners(last.was_at[i], DecodeAngle(RegimeAction(i)[1]), DecodeDistance(RegimeAction(i)[1], last.was_at[i]), RegimeAction(i)[2] + MinAltitude, gps_botm_left, gps_top_right, <<last.was_dir[i]>>)

\* C6 (regime selection): after every iteration, each sample was ended
\* exactly according to the regime's progress (or the budget), and each
\* sample that was advanced has the window and direction that
\* move_view_corners yields for the regime's action.
C6_RegimeSelection ==
    Stepped =>
        \A i \in Samples :
            /\ OverHalf(RegimeProgress(i)) => ended[i] /\ i \notin last.moved
            /\ ~OverHalf(RegimeProgress(i)) /\ t < MaxActionLen =>
                  /\ i \in last.moved
                  /\ ended[i] = last.was_ended[i]
                  /\ current_view_corners[i] = RegimeMove(i).corners
                  /\ current_directions[i] = RegimeMove(i).direction

\* a teacher step that advanced a sample by the oracle's action although the
\* model's progress was over 0.5 and the model's action would have led
\* elsewhere
C6_Witness ==
    /\ Stepped
    /\ feedback = "teacher"
    /\ \E i \in last.moved :
          /\ OverHalf(ClipProgress(last.pred[i].progress))
          /\ current_view_corners[i] # last.was_at[i]
          /\ ClampRatio(last.pred[i].next_pos_ratio) # last.target[i].ratio

\* C7 (independent invocations): when the step loop of a rollout starts,
\* every sample is not ended, its window is the first reference window and
\* its histories hold the initial (window, direction) pair only.
C7_FreshStart ==
    pc = "loop" /\ t = 0 =>
        \A i \in Samples :
            /\ ~ended[i]
            /\ current_view_corners[i] = gt_path_corners[i][1]
            /\ current_directions[i] = starting_angle(i)
            /\ traj[i].path_corners = << <<gt_path_corners[i][1], starting_angle(i)>> >>
            /\ traj[i].actions = << >> /\ traj[i].gt_actions = << >>
            /\ traj[i].gt_progress = << >> /\ traj[i].progress = << >>

\* the student pass of a training iteration starts, after the teacher pass
C7_Witness ==
    /\ pc = "loop" /\ t = 0
    /\ entry = "train" /\ feedback = "student" /\ plan = << >>

\* C8 as stated (error locality): a failure of the oracle for some samples
\* of the batch never abandons the rollout of the others.
C8_AsStated == ~(pc = "raised" /\ last.raised # Samples)

\* C9 as stated (not-a-number guard): ml_loss, and self.loss through it, is
\* never not-a-number.
C9_AsStated == ml_loss # "nan" /\ loss # "nan"

\* C10 as stated (oracle terminal case): in every iteration with an oracle,
\* the ratio pair returned for a sample is the terminal one, (0, 0), exactly
\* when the sample had ended or its progress is over 0.5.
C10_AsStated ==
    Stepped /\ ~env_test =>
        \A i \in Samples :
            last.target[i].ratio = ZeroRatio
                <=> (last.was_ended[i] \/ OverHalf(last.target[i].progress))

\* C20 as stated (progress range in the records): every value in a
\* sample's progress histories, traj['progress'] and traj['gt_progress'],
\* lies in [0, 1].
C20_AsStated ==
    InRollout =>
        \A i \in Samples :
            /\ \A k \in 1..Len(traj[i].progress) :
                  0 <= traj[i].progress[k][1] /\ traj[i].progress[k][1] <= traj[i].progress[k][2]
            /\ \A k \in 1..Len(traj[i].gt_progress) :
                  0 <= traj[i].gt_progress[k][1] /\ traj[i].gt_progress[k][1] <= traj[i].gt_progress[k][2]

\* C21 as stated (altitude-ratio range): every altitude ratio recorded in
\* a sample's actions and gt_actions, and every one executed by
\* move_view_corners, lies in [0, 1] (0..360 in 1/360), so that the target
\* altitude lies in [40, 400].
C21_AsStated ==
    InRollout =>
        \A i \in Samples :
            /\ \A k \in 1..Len(traj[i].actions) :
                  0 <= traj[i].actions[k][2] /\ traj[i].actions[k][2] <= AltitudeSpan
            /\ \A k \in 1..Len(traj[i].gt_actions) :
                  0 <= traj[i].gt_actions[k][2] /\ traj[i].gt_actions[k][2] <= AltitudeSpan
            /\ Stepped /\ i \in last.moved =>
                  0 <= last.a_t[i][2] /\ last.a_t[i][2] <= AltitudeSpan

\* sample i of the iteration that raised was not terminal: not ended and
\* its progress at most 0.5
RaisedNonTerminal(i) ==
    /\ ~last.was_ended[i]
    /\ ~OverHalf(compute_iou(last.was_at[i], gt_path_corners[i][Len(gt_path_corners[i])]).iou)

\* the target line of sample i has no intersection with its window, the
\* line from the current position to the goal (of zero length, with the
\* empty outcome) included
NoIntersection(i) ==
    /\ feedback = "teacher" =>
          Intersection(last.was_at[i],
                       [j \in 1..Len(gt_path_corners[i]) |-> Mean(gt_path_corners[i][j])],
                       "empty").kind = "Empty"
    /\ Intersection(last.was_at[i],
                    <<Mean(last.was_at[i]), GoalCentre(gt_path_corners[i])>>,
                    "empty").kind = "Empty"

\* C22 as stated (empty intersection is tolerated): teacher_action does not
\* raise at a non-terminal sample whose target line has no intersection
\* point with the window even after the fallback.
C22_AsStated ==
    pc = "raised" =>
        \A i \in last.raised : ~(RaisedNonTerminal(i) /\ NoIntersection(i))

\* C23 as stated (no supervision on terminal targets): in every iteration
\* with an oracle, the regression terms of a sample that had ended or whose
\* progress is over 0.5 are not added to ml_loss.
C23_AsStated ==
    Stepped /\ ~env_test =>
        \A i \in Samples :
            last.was_ended[i] \/ OverHalf(last.target[i].progress)
                => i \notin last.supervised

\* C24 (trajectory record alignment): when rollout has returned, each
\* sample has as many recorded actions as path_corners entries; while it
\* runs, a sample that has not ended has one entry more than actions and its
\* last entry is its current window and direction, so that each action was
\* produced at the entry of the same index.
C24_Alignment ==
    /\ pc = "returned" =>
          \A i \in Samples : Len(traj[i].actions) = Len(traj[i].path_corners)
    /\ pc = "loop" =>
          \A i \in Samples :
              ~ended[i] =>
                  /\ Len(traj[i].path_corners) = Len(traj[i].actions) + 1
                  /\ traj[i].path_corners[Len(traj[i].path_corners)]
                        = <<current_view_corners[i], current_directions[i]>>
    /\ Stepped =>
          \A i \in Samples :
              ~last.was_ended[i] =>
                  /\ traj[i].path_corners[Len(traj[i].actions)] = <<last.was_at[i], last.was_dir[i]>>
                  /\ traj[i].actions[Len(traj[i].actions)]
                        = <<ClampRatio(last.pred[i].next_pos_ratio), ClipAltitude(last.pred[i].altitude)>>

\* rollout returned with a sample that was advanced to another window
\* before it ended, and one that ended in the first step
C24_Witness ==
    /\ pc = "returned"
    /\ \E i, j \in Samples :
          /\ Len(traj[i].actions) >= 2
          /\ traj[i].path_corners[2][1] # traj[i].path_corners[1][1]
          /\ Len(traj[j].actions) = 1

(***************************************************************************)
(* Properties of the oracle's functions, checked under SpecOracle.         *)
(***************************************************************************)
Dot(v, w) == v[1] * w[1] + v[2] * w[2]

\* the window's axes as teacher_action reads them: _net_x and _net_y
AxisX(cs) == Sub(Mid(cs[2], cs[3]), Mean(cs))

AxisY(cs) == Sub(Mid(cs[1], cs[2]), Mean(cs))

\* the offset of exact point x from integer point p, times x[3]
Offset(x, p) == <<x[1] - p[1] * x[3], x[2] - p[2] * x[3]>>

\* the displacement a ratio pair stands for in window cs, times r[3]
RatioVector(cs, r) ==
    <<r[1] * AxisX(cs)[1] + r[2] * AxisY(cs)[1], r[1] * AxisX(cs)[2] + r[2] * AxisY(cs)[2]>>

\* the coefficients of the last solve's target on the two axes, before the
\* clamp, times SolveUnit: the axes of a square window are orthogonal and of
\* one length, so each coefficient is a projection
SolveU0 == Dot(Offset(last.target, Mean(last.corners)), AxisX(last.corners))

SolveU1 == Dot(Offset(last.target, Mean(last.corners)), AxisY(last.corners))

SolveUnit == Dot(AxisX(last.corners), AxisX(last.corners)) * last.target[3]

SolveScale == Max2(Max2(Abs(SolveU0), Abs(SolveU1)), SolveUnit)

\* C11 (oracle ratio clamp): the pair (rx, ry) that the basis decomposition
\* returns has max(|rx|, |ry|) <= 1 and is the solved pair divided by
\* max(|ux|, |uy|, 1), so each component keeps its sign and the two keep
\* their ratio.
C11_RatioClamp ==
    last # << >> /\ last.op = "solve" /\ ~last.result.raises =>
        /\ Abs(last.result.ratio[1]) <= last.result.ratio[3]
        /\ Abs(last.result.ratio[2]) <= last.result.ratio[3]
        /\ last.result.ratio[1] * SolveScale = SolveU0 * last.result.ratio[3]
        /\ last.result.ratio[2] * SolveScale = SolveU1 * last.result.ratio[3]
        /\ Sign(last.result.ratio[1]) = Sign(SolveU0)
        /\ Sign(last.result.ratio[2]) = Sign(SolveU1)
        /\ last.result.ratio[1] * SolveU1 = last.result.ratio[2] * SolveU0

\* a solve whose two coefficients differ, both are non-zero and one exceeds
\* 1, so that the clamp divides by more than 1
C11_Witness ==
    /\ last # << >> /\ last.op = "solve" /\ ~last.result.raises
    /\ SolveScale > SolveUnit
    /\ SolveU0 # 0 /\ SolveU1 # 0 /\ Abs(SolveU0) # Abs(SolveU1)
    /\ Max2(Abs(last.result.ratio[1]), Abs(last.result.ratio[2])) = last.result.ratio[3]

\* the last call was teacher_action for a sample and its intersection was read
SampleCalled == last # << >> /\ last.op = "teacher_sample" /\ ~last.line.raises

LastGoal == GoalCentre(last.gt_path_corners)

\* the sample of the last call is not terminal: progress at most 0.5
NonTerminal ==
    ~OverHalf(compute_iou(last.corners, last.gt_path_corners[Len(last.gt_path_corners)]).iou)

\* C12 as stated (target point selection): for a non-terminal sample with
\* intersection points, the target is the intersection point nearest to the
\* final reference window's centroid, whatever that distance is, and an
\* action is returned.
C12_AsStated ==
    SampleCalled /\ NonTerminal /\ last.line.coords # << >> =>
        /\ last.picked # << >>
        /\ \E k \in 1..Len(last.line.coords) : last.picked = last.line.coords[k]
        /\ \A k \in 1..Len(last.line.coords) : ~Closer(last.line.coords[k], last.picked, LastGoal)
        /\ ~last.result.raises

\* exact point x lies on the segment from p to q: on the line through
\* them, between the two
OnSegment(x, p, q) ==
    /\ Sub(q, p)[1] * Offset(x, p)[2] = Sub(q, p)[2] * Offset(x, p)[1]
    /\ Min2(p[1], q[1]) * x[3] <= x[1] /\ x[1] <= Max2(p[1], q[1]) * x[3]
    /\ Min2(p[2], q[2]) * x[3] <= x[2] /\ x[2] <= Max2(p[2], q[2]) * x[3]

\* exact point x lies on the polyline through the centroids of the path
OnPath(x, path) ==
    \E j \in 1..(Len(path) - 1) : OnSegment(x, Mean(path[j]), Mean(path[j + 1]))

\* the polyline through the centroids meets the window
PathMeets(cs, path) ==
    \E j \in 1..(Len(path) - 1) :
        ClipSegment(Mean(path[j]), Mean(path[j + 1]), BoxOf(cs)) # << >>

\* the last call's action leads from the window's centroid toward point w
PointsToward(w) ==
    /\ ~last.result.raises
    /\ RatioVector(last.corners, last.result.ratio)[1] * Sub(w, Mean(last.corners))[2]
         = RatioVector(last.corners, last.result.ratio)[2] * Sub(w, Mean(last.corners))[1]
    /\ Dot(RatioVector(last.corners, last.result.ratio), Sub(w, Mean(last.corners))) > 0

\* C13 (target line by regime): under "student" the intersection points lie
\* on the segment from the current centroid to the final centroid; under
\* "teacher" they lie on the polyline through all centroids when that meets
\* the window, and on the direct segment only when it does not.  For three
\* collinear windows and the current window at the first waypoint the
\* action points toward the second waypoint under "teacher" and toward the
\* third under "student".
C13_TargetLine ==
    SampleCalled =>
        /\ last.feedback = "student" =>
              /\ last.line.coords # << >>
              /\ \A k \in 1..Len(last.line.coords) :
                    OnSegment(last.line.coords[k], Mean(last.corners), LastGoal)
        /\ last.feedback = "teacher" /\ PathMeets(last.corners, last.gt_path_corners) =>
              /\ last.line.coords # << >>
              /\ \A k \in 1..Len(last.line.coords) :
                    OnPath(last.line.coords[k], last.gt_path_corners)
        /\ last.feedback = "teacher" /\ ~PathMeets(last.corners, last.gt_path_corners) =>
              /\ last.line.coords # << >>
              /\ \A k \in 1..Len(last.line.coords) :
                    OnSegment(last.line.coords[k], Mean(last.corners), LastGoal)
        /\ last.gt_path_corners = StraightPath /\ Mean(last.corners) = Mean(StraightPath[1]) =>
              PointsToward(Mean(StraightPath[IF last.feedback = "teacher" THEN 2 ELSE 3]))

\* a teacher call at the first waypoint of a path that turns: the action
\* points toward the second waypoint and not toward the final one
C13_Witness ==
    /\ SampleCalled
    /\ last.feedback = "teacher"
    /\ last.gt_path_corners = BentPath
    /\ Mean(last.corners) = Mean(BentPath[1])
    /\ PointsToward(Mean(BentPath[2]))
    /\ ~PointsToward(Mean(BentPath[3]))

\* the distance from the last call's window to reference window k
StepDist(k) == ScaledDist(Mean(last.gt_path_corners[k]), Mean(last.corners))

\* C14 (nearest reference index): the index chosen is one of the path, its
\* distance is minimal up to 1e-5, every later index is strictly farther,
\* an index before the last was chosen only for a distance smaller than the
\* last window's by more than 1e-5, and the altitude target is that
\* window's edge length in metres less 40 (over 400 - 40).
C14_NearestIndex ==
    last # << >> /\ last.op = "closest_step" =>
        /\ last.index \in 1..Len(last.gt_path_corners)
        /\ \A k \in 1..Len(last.gt_path_corners) :
              /\ StepDist(last.index) <= StepDist(k) + Epsilon
              /\ k > last.index => StepDist(last.index) < StepDist(k)
        /\ last.index < Len(last.gt_path_corners) =>
              StepDist(last.index) + Epsilon < StepDist(Len(last.gt_path_corners))
        /\ last.altitude + MinAltitude
              = Norm(Sub(last.gt_path_corners[last.index][1], last.gt_path_corners[last.index][2]))
                  * MetresPerUnit

\* two windows of different size are equally near and the later one is
\* chosen
C14_Witness ==
    /\ last # << >> /\ last.op = "closest_step"
    /\ last.index = 3
    /\ StepDist(2) = StepDist(3)
    /\ last.altitude # TeacherAltitude(last.gt_path_corners[2])

\* a window with four distinct corners
PositiveArea(cs) == BoxOf(cs).lo1 < BoxOf(cs).hi1 /\ BoxOf(cs).lo2 < BoxOf(cs).hi2

\* the window one unit further along the second axis
ShiftedOn(cs) == [k \in 1..4 |-> <<cs[k][1], cs[k][2] + 1>>]

\* the last call's windows are squares of one size on one axis, the second
\* not before the first, and they overlap
SeparatingSquares ==
    /\ BoxOf(last.a).hi1 - BoxOf(last.a).lo1 = BoxOf(last.a).hi2 - BoxOf(last.a).lo2
    /\ BoxOf(last.b).hi1 - BoxOf(last.b).lo1 = BoxOf(last.a).hi1 - BoxOf(last.a).lo1
    /\ BoxOf(last.b).hi2 - BoxOf(last.b).lo2 = BoxOf(last.a).hi2 - BoxOf(last.a).lo2
    /\ BoxOf(last.b).lo1 = BoxOf(last.a).lo1
    /\ BoxOf(last.b).lo2 >= BoxOf(last.a).lo2
    /\ BoxOf(last.b).lo2 < BoxOf(last.a).hi2

\* C15 (progress metric): for two quadrilaterals compute_iou is the area of
\* their intersection over the area of the convex hull of their eight
\* vertices; it is 0 when they are disjoint, 1 when they are the same
\* polygon, and it drops strictly when the second of two overlapping equal
\* squares is moved one unit further away along the axis.
C15_Progress ==
    last # << >> /\ last.op = "compute_iou" /\ PositiveArea(last.a) /\ PositiveArea(last.b) =>
        /\ ~last.result.raises
        /\ last.result.iou[1] * HullArea2({last.a[k] : k \in 1..4} \cup {last.b[k] : k \in 1..4})
              = last.result.iou[2] * InterArea2(BoxOf(last.a), BoxOf(last.b))
        /\ 0 <= last.result.iou[1] /\ last.result.iou[1] <= last.result.iou[2]
        /\ ~Intersects(BoxOf(last.a), BoxOf(last.b)) => last.result.iou = <<0, 1>>
        /\ BoxOf(last.a) = BoxOf(last.b) => last.result.iou = <<1, 1>>
        /\ SeparatingSquares =>
              /\ ~FracLe(last.result.iou, compute_iou(last.a, ShiftedOn(last.b)).iou)
              /\ last.result.iou[1] > 0

\* two equal squares that overlap in part
C15_Witness ==
    /\ last # << >> /\ last.op = "compute_iou"
    /\ PositiveArea(last.a) /\ SeparatingSquares
    /\ BoxOf(last.b).lo2 > BoxOf(last.a).lo2
    /\ 0 < last.result.iou[1] /\ last.result.iou[1] < last.result.iou[2]

\* the eight vertices of the last compute_iou call
LastVertices == {last.a[k] : k \in 1..4} \cup {last.b[k] : k \in 1..4}

\* C25 as stated (zero-area hull guard): when the two polygons intersect
\* and the convex hull of their vertices has area 0, compute_iou returns 0
\* and does not divide by zero.
C25_AsStated ==
    /\ last # << >> /\ last.op = "compute_iou"
    /\ Intersects(BoxOf(last.a), BoxOf(last.b))
    /\ HullArea2(LastVertices) = 0
    => ~last.result.raises /\ last.result.iou = <<0, 1>>

====
